---------------------------- MODULE Spec2Model ----------------------------
(***************************************************************************)
(* Archive-backed asset resolver of the glTF viewer.                       *)
(*                                                                         *)
(* A JavaScript string is a sequence of one-character strings, so that     *)
(* toLowerCase, split, endsWith, substring and decodeURIComponent are      *)
(* computed character by character as the code computes them.              *)
(*                                                                         *)
(* Four state machines share the module:                                   *)
(*   Spec         the loader returned by createZipResourceLoader, over     *)
(*                every archive and scene document of the pools;           *)
(*   ViewerSpec   the React state machine of GltfViewer and Model          *)
(*                (uploads, timers, effects, the global loader override),  *)
(*                and ViewerFairSpec, the same under weak fairness;        *)
(*   ExtractSpec  extractZipFile, one step per settled member decode.      *)
(*   OverrideSpec the overrides of THREE.FileLoader.prototype.load of the  *)
(*                three sources that install one, called with and without  *)
(*                onLoad.                                                  *)
(***************************************************************************)
EXTENDS Integers, Sequences, FiniteSets, TLC

VARIABLES
    \* ---- Spec: one loader built over one extracted archive
    origin,          \* the origin of the page, which every object URL carries
    extractedFiles,  \* ExtractedFile[] handed to createZipResourceLoader
    fileMap,         \* the Map built by createZipResourceLoader: key -> index of the file
    binFiles,        \* extractedFiles.filter(f => f.isBin), as indices
    gltfUri,         \* the uri carried by images[0] and buffers[0] of the scene document
    request,         \* the last reference asked of the loader, NoRequest before the first
    response,        \* what the loader answered
    again,           \* the rewriter applied to its own output, None until done
    \* ---- ViewerSpec: GltfViewer / Model
    zipFiles,        \* GltfViewer state: 0 (null) or the id of the archive shown
    modelUrl,        \* GltfViewer state: 0 (a preset or external URL) or the archive id whose handle it is
    modelError,      \* GltfViewer state: TRUE when a load error is displayed
    canvasKey,       \* modelKey: number of forced remounts so far
    pendingUploads,  \* archives whose extractZipFile promise has not settled
    timers,          \* archives whose 300 ms timeout is pending, in the order they were set
    uploaded,        \* number of uploads started so far
    globalLoad,      \* THREE.FileLoader.prototype.load: <<>> is the library's, else an override chain
    model,           \* the committed Model instance and its hooks
    listeners,       \* TRUE while the window keydown/keyup listeners are registered
    revoked,         \* archives whose object URLs have been revoked
    viewerMounted,   \* FALSE once GltfViewer has unmounted
    created,         \* archives for whose members object URLs have been created
    toast,           \* the last destructive toast shown
    \* ---- ExtractSpec: one call of extractZipFile (extractedFiles is its array)
    zipEntries,      \* Object.keys(zipContent.files), in the archive's order
    settled,         \* per entry: "pending", "ok", "failed", or "dir"
    result,          \* "loading", "decoding", then what the promise resolves with
    \* ---- OverrideSpec: a call of THREE.FileLoader.prototype.load by the library
    installed,       \* "none", or the source whose override is the current load
    loadCall,        \* the arguments of the last call of load
    loadOutcome      \* what that call returned and whom it called on the way

resolverVars == <<origin, extractedFiles, fileMap, binFiles, gltfUri, request, response, again>>
viewerVars == <<zipFiles, modelUrl, modelError, canvasKey, pendingUploads, timers,
                uploaded, globalLoad, model, listeners, revoked, viewerMounted,
                created, toast>>
extractVars == <<zipEntries, settled, result>>
overrideVars == <<installed, loadCall, loadOutcome>>
vars == <<origin, extractedFiles, fileMap, binFiles, gltfUri, request, response, again,
          zipFiles, modelUrl, modelError, canvasKey, pendingUploads, timers,
          uploaded, globalLoad, model, listeners, revoked, viewerMounted,
          created, toast, zipEntries, settled, result,
          installed, loadCall, loadOutcome>>

-----------------------------------------------------------------------------
(* Bounds *)

\* Largest number of members of an archive.
MaxFiles == 3

\* Largest number of ZIP uploads in one viewer session.
MaxUploads == 2

\* Largest number of forced remounts (modelKey changes) in one viewer session.
MaxRemounts == 3

-----------------------------------------------------------------------------
(* JavaScript strings *)

UpperChars == <<"A","B","C","D","E","F","G","H","I","J","K","L","M",
                "N","O","P","Q","R","S","T","U","V","W","X","Y","Z">>
LowerChars == <<"a","b","c","d","e","f","g","h","i","j","k","l","m",
                "n","o","p","q","r","s","t","u","v","w","x","y","z">>

\* upper-case letter -> lower-case letter, and back
LowerOf ==
    [c \in {UpperChars[i] : i \in DOMAIN UpperChars} |->
        LowerChars[CHOOSE i \in DOMAIN UpperChars : UpperChars[i] = c]]
UpperOf ==
    [c \in {LowerChars[i] : i \in DOMAIN LowerChars} |->
        UpperChars[CHOOSE i \in DOMAIN LowerChars : LowerChars[i] = c]]

LowerChar(c) == IF c \in DOMAIN LowerOf THEN LowerOf[c] ELSE c

UpperChar(c) == IF c \in DOMAIN UpperOf THEN UpperOf[c] ELSE c

\* String.prototype.toLowerCase
ToLowerCase(s) == [i \in 1..Len(s) |-> LowerChar(s[i])]

\* String.prototype.toUpperCase
ToUpperCase(s) == [i \in 1..Len(s) |-> UpperChar(s[i])]

\* s.substring(from) with a 0-based index, as in JavaScript
SubstringFrom(s, from) == SubSeq(s, from + 1, Len(s))

\* s.substring(0, to)
SubstringTo(s, to) == SubSeq(s, 1, to)

\* s.indexOf(c) for a one-character c: 0-based, -1 when absent
IndexOf(s, c) ==
    IF \E i \in 1..Len(s) : s[i] = c
    THEN (CHOOSE i \in 1..Len(s) : s[i] = c /\ \A j \in 1..(i - 1) : s[j] # c) - 1
    ELSE -1

\* s.lastIndexOf(c)
LastIndexOf(s, c) ==
    IF \E i \in 1..Len(s) : s[i] = c
    THEN (CHOOSE i \in 1..Len(s) : s[i] = c /\ \A j \in (i + 1)..Len(s) : s[j] # c) - 1
    ELSE -1

\* s.includes(sub)
Includes(s, sub) ==
    \E i \in 0..(Len(s) - Len(sub)) : SubSeq(s, i + 1, i + Len(sub)) = sub

\* s.startsWith(pre)
StartsWith(s, pre) ==
    Len(pre) <= Len(s) /\ SubSeq(s, 1, Len(pre)) = pre

\* s.endsWith(suf)
EndsWith(s, suf) ==
    Len(suf) <= Len(s) /\ SubSeq(s, Len(s) - Len(suf) + 1, Len(s)) = suf

\* s.split(c)[0]
SplitFirst(s, c) == IF IndexOf(s, c) = -1 THEN s ELSE SubstringTo(s, IndexOf(s, c))

\* s.split(c).pop()
SplitPop(s, c) == SubstringFrom(s, LastIndexOf(s, c) + 1)

\* s.replace(/\\/g, '/')
ReplaceBackslashes(s) == [i \in 1..Len(s) |-> IF s[i] = "\\" THEN "/" ELSE s[i]]

HexDigits == {"0","1","2","3","4","5","6","7","8","9",
              "a","b","c","d","e","f","A","B","C","D","E","F"}

\* The character a percent-escape of one byte below 0x80 stands for. The
\* escapes the pools can produce are listed; any other decodes to "*".
PercentChar(h, l) ==
    CASE <<LowerChar(h), LowerChar(l)>> = <<"2", "0">> -> " "
      [] <<LowerChar(h), LowerChar(l)>> = <<"2", "5">> -> "%"
      [] <<LowerChar(h), LowerChar(l)>> = <<"2", "f">> -> "/"
      [] <<LowerChar(h), LowerChar(l)>> = <<"3", "f">> -> "?"
      [] <<LowerChar(h), LowerChar(l)>> = <<"4", "2">> -> "B"
      [] <<LowerChar(h), LowerChar(l)>> = <<"5", "c">> -> "\\"
      [] <<LowerChar(h), LowerChar(l)>> = <<"6", "2">> -> "b"
      [] OTHER -> "*"

\* decodeURIComponent throws URIError on a '%' that two hex digits do not
\* follow, and on an escaped byte of 0x80 or more that starts no complete
\* UTF-8 sequence (no pool string holds a multi-byte sequence).
ThrowsURIError(s) ==
    \E i \in 1..Len(s) :
        /\ s[i] = "%"
        /\ \/ i + 2 > Len(s)
           \/ s[i + 1] \notin HexDigits
           \/ s[i + 2] \notin HexDigits
           \/ s[i + 1] \in {"8","9","a","b","c","d","e","f","A","B","C","D","E","F"}

RECURSIVE DecodeFrom(_, _)
DecodeFrom(s, i) ==
    IF i > Len(s) THEN <<>>
    ELSE IF s[i] = "%"
         THEN <<PercentChar(s[i + 1], s[i + 2])>> \o DecodeFrom(s, i + 3)
         ELSE <<s[i]>> \o DecodeFrom(s, i + 1)

\* decodeURIComponent(s), for an s it does not throw on
DecodeURIComponent(s) == DecodeFrom(s, 1)

-----------------------------------------------------------------------------
(* Archives, references and scene documents the model ranges over *)

Str_blob == <<"b","l","o","b",":">>
Str_bin == <<"b","i","n">>
Str_dotbin == <<".","b","i","n">>
Str_dotgltf == <<".","g","l","t","f">>
Str_gltf == <<"g","l","t","f">>
Str_glb == <<"g","l","b">>
Str_scenebin == <<"s","c","e","n","e",".","b","i","n">>
Str_slash_scenebin == <<"/","s","c","e","n","e",".","b","i","n">>
Str_dot_slash_scenebin == <<".","/","s","c","e","n","e",".","b","i","n">>
Str_slash == <<"/">>
Str_dot_slash == <<".","/">>

\* Member paths an archive is drawn from: a scene document in a folder, the
\* same path in upper case, same-named buffers in two folders and at the
\* root, an image, and a member whose name holds a '%'.
PathPool ==
    { <<"s","/","m",".","g","l","t","f">>,
      <<"S","/","M",".","G","L","T","F">>,
      <<"s","/","b",".","b","i","n">>,
      <<"o","/","b",".","b","i","n">>,
      <<"b",".","b","i","n">>,
      <<"o","/","t",".","p","n","g">>,
      <<"o","/","5","%",".","p","n","g">> }

\* uri values of the scene document's images[0] and buffers[0]; the empty
\* string stands for an entry without a uri.
UriPool ==
    { <<"b",".","b","i","n">>,
      <<"s","c","e","n","e",".","b","i","n">>,
      <<"t",".","p","n","g">>,
      <<"z",".","p","n","g">>,
      <<>> }

\* References asked of the loader besides the document's uris and the
\* members' own paths: an unknown buffer, a bare suffix, a query with a
\* backslash, the percent-escape of an upper-case letter, and an image
\* named after scene.bin.
ExtraRefs ==
    { <<"z",".","b","i","n">>,
      <<".","b","i","n">>,
      <<"o","\\","B",".","b","i","n","?","1">>,
      <<"%","4","2",".","b","i","n">>,
      <<"s","c","e","n","e",".","b","i","n",".","p","n","g">> }

Digits == <<"1","2","3","4","5","6","7","8","9">>

\* const MAX_FILE_SIZE = 500 * 1024 * 1024
MAX_FILE_SIZE == 500 * 1024 * 1024

\* Sizes of the files handed to the upload handlers: one megabyte, the
\* limit, the limit plus one byte, and 600 megabytes.
FileSizes == { 1024 * 1024, MAX_FILE_SIZE, MAX_FILE_SIZE + 1, 600 * 1024 * 1024 }

\* Origins the page is served from: one whose text holds "bin", one not.
Origins == { <<"h">>, <<"b","i","n">> }

None == [t |-> "none", file |-> 0, gltf |-> <<>>, url |-> <<>>]
NoToast == [title |-> "", description |-> "", id |-> 0, file |-> 0, mb |-> 0]
NoRequest == [url |-> <<>>, direct |-> FALSE, net |-> "none"]

-----------------------------------------------------------------------------
(* extractZipFile: the record pushed for one decoded member *)

\* URL.createObjectURL for the k-th blob created: "blob:<origin>/<k>"
ObjectURL(k) == Str_blob \o origin \o <<"/", Digits[k]>>

\* filename.split('.').pop()?.toLowerCase()
Extension(filename) == ToLowerCase(SplitPop(filename, "."))

\* filename.split('/').pop() || filename
BaseName(filename) ==
    IF SplitPop(filename, "/") = <<>> THEN filename ELSE SplitPop(filename, "/")

\* The ExtractedFile pushed for member `filename`, the k-th to finish decoding.
\* `data` is the member's content: the record stands for it.
ExtractedFile(filename, k) ==
    [ name   |-> BaseName(filename),
      path   |-> filename,
      url    |-> ObjectURL(k),
      isGltf |-> Extension(filename) = Str_gltf \/ Extension(filename) = Str_glb,
      isBin  |-> Extension(filename) = Str_bin ]

-----------------------------------------------------------------------------
(* createZipResourceLoader: fileMap and binFiles *)

\* Array.prototype.find: the index of the first element passing Test, 0 for undefined
Find(files, Test(_)) ==
    IF \E i \in 1..Len(files) : Test(files[i])
    THEN CHOOSE i \in 1..Len(files) :
            Test(files[i]) /\ \A j \in 1..(i - 1) : ~Test(files[j])
    ELSE 0

\* a || b on two possibly-undefined files
OrElse(a, b) == IF a # 0 THEN a ELSE b

EmptyMap == [k \in {} |-> 0]

\* Map.prototype.set: the value of an existing key is replaced
MapSet(m, k, v) == [x \in (DOMAIN m) \cup {k} |-> IF x = k THEN v ELSE m[x]]

\* Map.prototype.get: 0 for undefined
MapGet(m, k) == IF k \in DOMAIN m THEN m[k] ELSE 0

\* file.path.includes('/') ? file.path.substring(file.path.indexOf('/') + 1) : file.path
StrippedPath(path) ==
    IF Includes(path, Str_slash)
    THEN SubstringFrom(path, IndexOf(path, "/") + 1)
    ELSE path

\* FileKeys with the scene.bin aliases registered under the wrong flag
\* (file.isGltf for file.isBin).
FileKeys_AliasesForGltf(file) ==
    <<ToLowerCase(file.name), ToLowerCase(file.path), ToLowerCase(StrippedPath(file.path))>>
    \o (IF file.isGltf
        THEN <<Str_scenebin, Str_slash_scenebin, Str_dot_slash_scenebin>>
        ELSE <<>>)

\* The keys the forEach body sets for one file, in the order it sets them.
FileKeys(file) ==
    <<ToLowerCase(file.name), ToLowerCase(file.path), ToLowerCase(StrippedPath(file.path))>>
    \o (IF file.isBin
        THEN <<Str_scenebin, Str_slash_scenebin, Str_dot_slash_scenebin>>
        ELSE <<>>)

RECURSIVE SetAll(_, _, _, _)
SetAll(m, keys, n, v) ==
    IF n = 0 THEN m ELSE MapSet(SetAll(m, keys, n - 1, v), keys[n], v)

\* fileMap after the forEach has visited files[1..n]; a file is its index
RECURSIVE FileMapUpTo(_, _)
FileMapUpTo(files, n) ==
    IF n = 0 THEN EmptyMap
    ELSE SetAll(FileMapUpTo(files, n - 1), FileKeys(files[n]), Len(FileKeys(files[n])), n)

FileMap(files) == FileMapUpTo(files, Len(files))

\* extractedFiles.filter(f => f.isBin), as indices in array order
BinFiles(files) ==
    SelectSeq([i \in 1..Len(files) |-> i], LAMBDA i : files[i].isBin)

\* binFiles[0]: 0 for undefined
FirstBin == IF binFiles = <<>> THEN 0 ELSE binFiles[1]

-----------------------------------------------------------------------------
(* createZipResourceLoader: the rewriting of the scene document *)

\* The parsed scene document whose images[0] and buffers[0] carry uri u;
\* buffers[1] has no uri (the empty string stands for undefined).
Gltf(u) ==
    [ asset   |-> [version |-> "2.0"],
      images  |-> <<[uri |-> u, name |-> "i0"]>>,
      buffers |-> <<[uri |-> u, byteLength |-> "n0"],
                    [uri |-> <<>>, byteLength |-> "n1"]>> ]

\* file.path.includes('/') ? file.path.substring(0, file.path.lastIndexOf('/') + 1) : ''
GltfDir(path) ==
    IF Includes(path, Str_slash)
    THEN SubstringTo(path, LastIndexOf(path, "/") + 1)
    ELSE <<>>

\* The file an images[] uri is rewritten to, 0 when it is left alone.
ImageFile(files, gltfDir, uri) ==
    OrElse(MapGet(fileMap, ToLowerCase(uri)),
           MapGet(fileMap, ToLowerCase(gltfDir \o uri)))

RewriteImage(files, gltfDir, image) ==
    IF image.uri # <<>> /\ ImageFile(files, gltfDir, image.uri) # 0
    THEN [image EXCEPT !.uri = files[ImageFile(files, gltfDir, image.uri)].url]
    ELSE image

\* The file a buffers[] uri is rewritten to, 0 when it is left alone.
BufferFile(files, gltfDir, uri) ==
    IF ToLowerCase(uri) = Str_scenebin /\ binFiles # <<>>
    THEN FirstBin
    ELSE OrElse(
           OrElse(MapGet(fileMap, ToLowerCase(uri)),
             OrElse(MapGet(fileMap, ToLowerCase(gltfDir \o uri)),
                    Find(files, LAMBDA f :
                        \/ EndsWith(ToLowerCase(f.path), ToLowerCase(uri))
                        \/ EndsWith(ToLowerCase(f.path), Str_slash \o ToLowerCase(uri))
                        \/ ToLowerCase(f.name) = ToLowerCase(uri)))),
           FirstBin)

\* RewriteBuffer building the entry anew from the uri alone
RewriteBuffer_UriOnly(files, gltfDir, buffer) ==
    IF buffer.uri # <<>> /\ BufferFile(files, gltfDir, buffer.uri) # 0
    THEN [uri |-> files[BufferFile(files, gltfDir, buffer.uri)].url]
    ELSE buffer

RewriteBuffer(files, gltfDir, buffer) ==
    IF buffer.uri # <<>> /\ BufferFile(files, gltfDir, buffer.uri) # 0
    THEN [buffer EXCEPT !.uri = files[BufferFile(files, gltfDir, buffer.uri)].url]
    ELSE buffer

\* The document serialized by JSON.stringify(gltf) when file i is served.
RewriteGltf(files, i, gltf) ==
    [ gltf EXCEPT
        !.images  = [k \in 1..Len(gltf.images) |->
                        RewriteImage(files, GltfDir(files[i].path), gltf.images[k])],
        !.buffers = [k \in 1..Len(gltf.buffers) |->
                        RewriteBuffer(files, GltfDir(files[i].path), gltf.buffers[k])] ]

-----------------------------------------------------------------------------
(* createZipResourceLoader: the async function it returns *)

Fetched(url) == [t |-> "fetch", file |-> 0, gltf |-> <<>>, url |-> url]
Data(i) == [t |-> "data", file |-> i, gltf |-> <<>>, url |-> <<>>]
Text(i) == [t |-> "text", file |-> i, gltf |-> <<>>, url |-> <<>>]
Json(i, gltf) == [t |-> "json", file |-> i, gltf |-> gltf, url |-> <<>>]
Thrown(kind, url) == [t |-> kind, file |-> 0, gltf |-> <<>>, url |-> url]

\* url.split('?')[0].replace(/\\/g, '/').toLowerCase(), the argument of decodeURIComponent
Undecoded(url) == ToLowerCase(ReplaceBackslashes(SplitFirst(url, "?")))

\* NormalizedUrl with the toLowerCase() call left out
NormalizedUrl_NoLowerCase(url) ==
    DecodeURIComponent(ReplaceBackslashes(SplitFirst(url, "?")))

\* decodeURIComponent(url.split('?')[0].replace(/\\/g, '/').toLowerCase())
NormalizedUrl(url) == DecodeURIComponent(Undecoded(url))

\* normalizedUrl.split('/').pop() || normalizedUrl
Filename(normalizedUrl) ==
    IF SplitPop(normalizedUrl, "/") = <<>> THEN normalizedUrl
    ELSE SplitPop(normalizedUrl, "/")

\* Lookup with its first two operands exchanged: the filename is tried first
Lookup_FilenameFirst(files, normalizedUrl, filename) ==
    OrElse(MapGet(fileMap, filename),
      OrElse(MapGet(fileMap, normalizedUrl),
        OrElse(Find(files, LAMBDA f : EndsWith(ToLowerCase(f.path), normalizedUrl)),
               Find(files, LAMBDA f : ToLowerCase(f.name) = filename))))

\* fileMap.get(normalizedUrl) || fileMap.get(filename) || find(endsWith) || find(name)
Lookup(files, normalizedUrl, filename) ==
    OrElse(MapGet(fileMap, normalizedUrl),
      OrElse(MapGet(fileMap, filename),
        OrElse(Find(files, LAMBDA f : EndsWith(ToLowerCase(f.path), normalizedUrl)),
               Find(files, LAMBDA f : ToLowerCase(f.name) = filename))))

\* `file` after the special handling for bin files
Resolve(files, normalizedUrl, filename) ==
    LET file == Lookup(files, normalizedUrl, filename)
    IN  IF /\ file = 0
           /\ \/ EndsWith(filename, Str_dotbin)
              \/ Includes(normalizedUrl, Str_scenebin)
        THEN FirstBin
        ELSE file

\* ["glb", "bin", "png", "jpg", "jpeg", "webp"].includes(ext || '')
BinaryExtensions ==
    { Str_glb, Str_bin, <<"p","n","g">>, <<"j","p","g">>, <<"j","p","e","g">>,
      <<"w","e","b","p">> }

\* What the loader returns for a file found in the archive.
Serve(files, gltf, i) ==
    IF files[i].isGltf /\ EndsWith(files[i].name, Str_dotgltf)
    THEN Json(i, RewriteGltf(files, i, gltf))
    ELSE IF ToLowerCase(SplitPop(files[i].name, ".")) \in BinaryExtensions
         THEN Data(i)
         ELSE Text(i)

\* The branch taken for a blob: URL. fetch rejects when the handle is dead.
LoadBlobUrl(files, url, net) ==
    IF net # "reject" THEN Fetched(url)
    ELSE IF Includes(url, Str_bin) /\ binFiles # <<>>
         THEN Data(FirstBin)
         ELSE Thrown("TypeError", url)

\* The network attempt for a reference not found in the archive. fetch
\* resolves on any HTTP status and rejects on a network error only.
LoadFromNetwork(files, url, filename, net) ==
    IF net # "reject" THEN Fetched(url)
    ELSE IF (Includes(url, Str_dotbin) \/ Includes(filename, Str_dotbin))
            /\ binFiles # <<>>
         THEN Data(FirstBin)
         ELSE Thrown("Error", url)

\* The loader applied to url; net is the outcome of fetch, should it be called.
ZipResourceLoader(files, gltf, url, net) ==
    IF StartsWith(url, Str_blob) THEN LoadBlobUrl(files, url, net)
    ELSE IF ThrowsURIError(Undecoded(url)) THEN Thrown("URIError", url)
    ELSE LET normalizedUrl == NormalizedUrl(url)
             filename == Filename(normalizedUrl)
             file == Resolve(files, normalizedUrl, filename)
         IN  IF file # 0
             THEN Serve(files, gltf, file)
             ELSE LoadFromNetwork(files, url, filename, net)

\* Whether the loader calls fetch for url.
CallsFetch(files, url) ==
    \/ StartsWith(url, Str_blob)
    \/ /\ ~ThrowsURIError(Undecoded(url))
       /\ Resolve(files, NormalizedUrl(url), Filename(NormalizedUrl(url))) = 0

-----------------------------------------------------------------------------
(* Model: the override of THREE.FileLoader.prototype.load, called with onLoad *)

\* What reaches onLoad (or onError) for url. A blob: URL goes to the
\* loader saved in originalFileLoader, which reads the blob itself.
FileLoaderLoad(files, gltf, url, net) ==
    IF url = <<>> THEN Thrown("null", url)
    ELSE IF StartsWith(url, Str_blob)
         THEN (IF net # "reject"
               THEN [t |-> "original", file |-> 0, gltf |-> <<>>, url |-> url]
               ELSE Thrown("ErrorEvent", url))
         ELSE ZipResourceLoader(files, gltf, url, net)

-----------------------------------------------------------------------------
(* Spec: one loader over one archive *)

\* Every order of every choice of at most MaxFiles distinct members that
\* extractZipFile returns: at least one member is a scene document.
Archives ==
    { [k \in DOMAIN p |-> ExtractedFile(p[k], k)] :
        p \in { q \in UNION { [1..n -> PathPool] : n \in 1..MaxFiles } :
                  /\ \A i, j \in DOMAIN q : i # j => q[i] # q[j]
                  /\ \E i \in DOMAIN q : ExtractedFile(q[i], i).isGltf } }

\* The references asked of the loader built over files.
Refs(files) ==
    UriPool \cup ExtraRefs
    \cup UNION { { files[i].path,
                   ToUpperCase(files[i].path),
                   Str_dot_slash \o files[i].path,
                   Str_slash \o files[i].path,
                   files[i].url } : i \in 1..Len(files) }

NetOutcomes == {"ok", "status", "reject"}

ViewerInit ==
    /\ zipFiles = 0
    /\ modelUrl = 0
    /\ modelError = FALSE
    /\ canvasKey = 0
    /\ pendingUploads = {}
    /\ timers = <<>>
    /\ uploaded = 0
    /\ globalLoad = <<>>
    /\ model = [mounted |-> FALSE, customLoader |-> FALSE, captured |-> FALSE,
                saved |-> FALSE, original |-> <<>>]
    /\ listeners = TRUE
    /\ revoked = {}
    /\ viewerMounted = TRUE
    /\ created = {}
    /\ toast = NoToast

\* No call of extractZipFile is under way.
ExtractIdle ==
    /\ zipEntries = <<>>
    /\ settled = <<>>
    /\ result = "idle"

NoCall == [made |-> FALSE, url |-> <<>>, onLoad |-> FALSE]

NoOutcome == [returns |-> "none", custom |-> 0, original |-> 0, self |-> 0]

\* No override is looked at on its own.
OverrideIdle ==
    /\ installed = "none"
    /\ loadCall = NoCall
    /\ loadOutcome = NoOutcome

Init ==
    /\ origin \in Origins
    /\ extractedFiles \in Archives
    /\ fileMap = FileMap(extractedFiles)
    /\ binFiles = BinFiles(extractedFiles)
    /\ gltfUri \in UriPool
    /\ request = NoRequest
    /\ response = None
    /\ again = None
    /\ ViewerInit
    /\ ExtractIdle
    /\ OverrideIdle

\* The renderer asks the installed override for url. The loader keeps no
\* state between calls, so one call per behaviour stands for every call.
LoadThroughOverride(url, net) ==
    /\ request = NoRequest
    /\ request' = [url |-> url, direct |-> FALSE, net |-> net]
    /\ response' = FileLoaderLoad(extractedFiles, Gltf(gltfUri), url, net)
    /\ again' = None
    /\ UNCHANGED <<origin, extractedFiles, fileMap, binFiles, gltfUri>>
    /\ UNCHANGED <<viewerVars, extractVars, overrideVars>>

\* The function returned by createZipResourceLoader is called with url.
LoadDirect(url, net) ==
    /\ request = NoRequest
    /\ request' = [url |-> url, direct |-> TRUE, net |-> net]
    /\ response' = ZipResourceLoader(extractedFiles, Gltf(gltfUri), url, net)
    /\ again' = None
    /\ UNCHANGED <<origin, extractedFiles, fileMap, binFiles, gltfUri>>
    /\ UNCHANGED <<viewerVars, extractVars, overrideVars>>

\* The rewriting is applied to the document it produced.
RewriteAgain ==
    /\ response.t = "json"
    /\ again = None
    /\ again' = Json(response.file,
                     RewriteGltf(extractedFiles, response.file, response.gltf))
    /\ UNCHANGED <<origin, extractedFiles, fileMap, binFiles, gltfUri, request, response>>
    /\ UNCHANGED <<viewerVars, extractVars, overrideVars>>

Next ==
    \/ /\ request = NoRequest
       /\ \E url \in Refs(extractedFiles) : \E net \in NetOutcomes :
             /\ (net # "ok" => url # <<>> /\ CallsFetch(extractedFiles, url))
             /\ LoadThroughOverride(url, net)
    \/ /\ request = NoRequest
       /\ \E url \in Refs(extractedFiles) : \E net \in NetOutcomes :
             /\ (net # "ok" => CallsFetch(extractedFiles, url))
             /\ LoadDirect(url, net)
    \/ RewriteAgain

Spec == Init /\ [][Next]_vars

-----------------------------------------------------------------------------
(* ViewerSpec: GltfViewer and Model *)

\* An archive is its upload number. globalLoad is the chain of archives
\* whose overrides a call passes through before it reaches the library's
\* load: <<>> is the library's load itself, <<a>> \o f the override
\* installed for archive a whose originalFileLoader holds f.

UnmountedModel ==
    [mounted |-> FALSE, customLoader |-> FALSE, captured |-> FALSE,
     saved |-> FALSE, original |-> <<>>]

\* The cleanup returned by Model's effect: it restores the loader only when
\* the customLoader it closed over is true and originalFileLoader is set.
LoadAfterCleanup(m, load) ==
    IF m.mounted /\ m.captured /\ m.saved THEN m.original ELSE load

\* Model's effect body for the zipFiles prop z, on the global load it finds.
\* The cleanup it returns closes over the customLoader of this render.
ModelAfterEffect(m, z, load) ==
    IF z # 0
    THEN [mounted |-> TRUE, customLoader |-> TRUE, captured |-> m.customLoader,
          saved |-> TRUE, original |-> IF m.saved THEN m.original ELSE load]
    ELSE [m EXCEPT !.mounted = TRUE, !.captured = m.customLoader]

LoadAfterEffect(m, z, load) ==
    IF z # 0 THEN <<z>> \o (IF m.saved THEN m.original ELSE load) ELSE load

\* The cleanup of GltfViewer's [zipFiles] effect, closed over zipFiles = z:
\* KeyboardControls.cleanup() and the revocation of z's object URLs.
RevokedAfterCleanup(z) == IF z # 0 THEN revoked \cup {z} ELSE revoked

\* (file.size / 1024 / 1024).toFixed(2), in hundredths of a megabyte:
\* the quotient rounded to two decimals.
SizeInMB(size) ==
    (size \div (1024 * 1024)) * 100
    + ((size % (1024 * 1024)) * 100 + (1024 * 1024) \div 2) \div (1024 * 1024)

\* The toast of the size check.
OversizeToast(id, size) ==
    [title |-> "Archivo demasiado grande", description |-> "El archivo es demasiado grande",
     id |-> id, file |-> size, mb |-> SizeInMB(size)]

\* The toast extractZipFile shows before it returns null.
ExtractToast(id, description) ==
    [title |-> "Error", description |-> description, id |-> id, file |-> 0, mb |-> 0]

\* handleZipFileUpload (directly, or from handleFiles) for a .zip file of
\* `size` bytes: the size check, then the await of extractZipFile.
UploadZip(size) ==
    /\ viewerMounted
    /\ uploaded < MaxUploads
    /\ uploaded' = uploaded + 1
    /\ IF size > MAX_FILE_SIZE
       THEN /\ toast' = OversizeToast(uploaded + 1, size)
            /\ UNCHANGED pendingUploads
       ELSE /\ pendingUploads' = pendingUploads \cup {uploaded + 1}
            /\ UNCHANGED toast
    /\ UNCHANGED <<zipFiles, modelUrl, modelError, canvasKey, timers, globalLoad,
                   model, listeners, revoked, viewerMounted, created>>
    /\ UNCHANGED <<resolverVars, extractVars, overrideVars>>

\* extractZipFile resolves with the files of archive a: setZipFiles and
\* setTimeout. The render that follows re-runs both [zipFiles] effects.
ExtractDone(a) ==
    /\ a \in pendingUploads
    /\ pendingUploads' = pendingUploads \ {a}
    /\ timers' = Append(timers, a)
    /\ created' = created \cup {a}
    /\ IF viewerMounted
       THEN /\ zipFiles' = a
            /\ listeners' = FALSE
            /\ revoked' = RevokedAfterCleanup(zipFiles)
            /\ IF model.mounted
               THEN /\ model' = ModelAfterEffect(model, a,
                                    LoadAfterCleanup(model, globalLoad))
                    /\ globalLoad' = LoadAfterEffect(model, a,
                                    LoadAfterCleanup(model, globalLoad))
               ELSE UNCHANGED <<model, globalLoad>>
       ELSE UNCHANGED <<zipFiles, listeners, revoked, model, globalLoad>>
    /\ UNCHANGED <<modelUrl, modelError, canvasKey, uploaded, viewerMounted, toast>>
    /\ UNCHANGED <<resolverVars, extractVars, overrideVars>>

\* extractZipFile resolves with null: the archive could not be read (no
\* member was decoded), or no decoded member is a scene document (`handles`
\* tells whether some member was decoded, and so given an object URL).
\* handleZipFileUpload returns.
ExtractFails(a, handles) ==
    /\ a \in pendingUploads
    /\ pendingUploads' = pendingUploads \ {a}
    /\ created' = IF handles THEN created \cup {a} ELSE created
    /\ toast' = ExtractToast(a, IF handles
                                THEN "No se encontraron archivos GLTF o GLB en el ZIP"
                                ELSE "Error al procesar el archivo ZIP")
    /\ UNCHANGED <<zipFiles, modelUrl, modelError, canvasKey, timers, uploaded,
                   globalLoad, model, listeners, revoked, viewerMounted>>
    /\ UNCHANGED <<resolverVars, extractVars, overrideVars>>

\* The 300 ms timeout of archive a: setModelError(null), setModelUrl,
\* setModelKey. The Canvas is remounted, so the Model unmounts. Timeouts
\* of one delay fire in the order they were set; none is ever cleared.
TimerFires(a) ==
    /\ timers # <<>>
    /\ a = Head(timers)
    /\ timers' = Tail(timers)
    /\ IF viewerMounted
       THEN /\ modelUrl' = a
            /\ modelError' = FALSE
            /\ canvasKey' = canvasKey + 1
            /\ globalLoad' = LoadAfterCleanup(model, globalLoad)
            /\ model' = UnmountedModel
       ELSE UNCHANGED <<modelUrl, modelError, canvasKey, globalLoad, model>>
    /\ UNCHANGED <<zipFiles, pendingUploads, uploaded, listeners, revoked, viewerMounted,
                   created, toast>>
    /\ UNCHANGED <<resolverVars, extractVars, overrideVars>>

\* loadPresetModel, loadModelFromUrl, handleFiles of a single model file,
\* resetViewer: setZipFiles(null), setModelUrl, setModelError(null), setModelKey.
SelectOtherModel ==
    /\ viewerMounted
    /\ canvasKey < MaxRemounts
    /\ zipFiles' = 0
    /\ modelUrl' = 0
    /\ modelError' = FALSE
    /\ canvasKey' = canvasKey + 1
    /\ listeners' = IF zipFiles # 0 THEN FALSE ELSE listeners
    /\ revoked' = RevokedAfterCleanup(zipFiles)
    /\ globalLoad' = LoadAfterCleanup(model, globalLoad)
    /\ model' = UnmountedModel
    /\ UNCHANGED <<pendingUploads, timers, uploaded, viewerMounted, created, toast>>
    /\ UNCHANGED <<resolverVars, extractVars, overrideVars>>

\* A new Model instance renders to the end and commits: its effect runs.
ModelCommits ==
    /\ viewerMounted
    /\ ~modelError
    /\ ~model.mounted
    /\ model' = ModelAfterEffect(model, zipFiles, globalLoad)
    /\ globalLoad' = LoadAfterEffect(model, zipFiles, globalLoad)
    /\ UNCHANGED <<zipFiles, modelUrl, modelError, canvasKey, pendingUploads, timers,
                   uploaded, listeners, revoked, viewerMounted, created, toast>>
    /\ UNCHANGED <<resolverVars, extractVars, overrideVars>>

\* useGLTF throws while the new Model renders: onError (handleModelError)
\* sets modelError and shows a toast; GltfViewer stops rendering the Model.
ModelLoadError ==
    /\ viewerMounted
    /\ ~modelError
    /\ ~model.mounted
    /\ modelError' = TRUE
    /\ toast' = [title |-> "Error al cargar modelo", description |-> "error",
                 id |-> modelUrl, file |-> 0, mb |-> 0]
    /\ UNCHANGED <<zipFiles, modelUrl, canvasKey, pendingUploads, timers, uploaded,
                   globalLoad, model, listeners, revoked, viewerMounted, created>>
    /\ UNCHANGED <<resolverVars, extractVars, overrideVars>>

\* GltfViewer unmounts: every effect cleanup runs.
ViewerUnmounts ==
    /\ viewerMounted
    /\ viewerMounted' = FALSE
    /\ listeners' = FALSE
    /\ revoked' = RevokedAfterCleanup(zipFiles)
    /\ globalLoad' = LoadAfterCleanup(model, globalLoad)
    /\ model' = UnmountedModel
    /\ UNCHANGED <<zipFiles, modelUrl, modelError, canvasKey, pendingUploads, timers,
                   uploaded, created, toast>>
    /\ UNCHANGED <<resolverVars, extractVars, overrideVars>>

\* The archive behind the loader of ViewerSpec is not looked into.
ViewerSpecInit ==
    /\ origin = <<"h">>
    /\ extractedFiles = <<>>
    /\ fileMap = EmptyMap
    /\ binFiles = <<>>
    /\ gltfUri = <<>>
    /\ request = NoRequest
    /\ response = None
    /\ again = None
    /\ ViewerInit
    /\ ExtractIdle
    /\ OverrideIdle

ViewerNext ==
    \/ \E size \in FileSizes : UploadZip(size)
    \/ \E a \in pendingUploads : ExtractDone(a)
    \/ \E a \in pendingUploads, handles \in BOOLEAN : ExtractFails(a, handles)
    \/ \E a \in {timers[k] : k \in DOMAIN timers} : TimerFires(a)
    \/ SelectOtherModel
    \/ ModelCommits
    \/ ModelLoadError
    \/ ViewerUnmounts

ViewerSpec == ViewerSpecInit /\ [][ViewerNext]_vars

\* Promises settle, timers fire and the page is eventually left: no step
\* that can be taken is put off for ever.
ViewerFairSpec == ViewerSpecInit /\ [][ViewerNext]_vars /\ WF_vars(ViewerNext)

-----------------------------------------------------------------------------
(* ExtractSpec: extractZipFile *)

\* Names of the archive's entries: a folder, a scene document, same-named
\* buffers in two folders, and an image.
EntryPool ==
    { <<"s","/">>,
      <<"s","/","m",".","g","l","t","f">>,
      <<"s","/","b",".","b","i","n">>,
      <<"o","/","b",".","b","i","n">>,
      <<"o","/","t",".","p","n","g">> }

\* Object.keys(zipContent.files): at most MaxFiles distinct entries, in
\* every order the archive can list them.
ZipListings ==
    { q \in UNION { [1..n -> EntryPool] : n \in 1..MaxFiles } :
        \A i, j \in DOMAIN q : i # j => q[i] # q[j] }

\* zipEntry.dir: JSZip marks the entries whose name ends in '/'
IsDir(filename) == EndsWith(filename, Str_slash)

\* AfterMemberError emptying the array, as if the error reached the outer catch
AfterMemberError_DropsAll(files) == <<>>

\* The catch of one member's decode error: the error is logged and the
\* array is left as it is.
AfterMemberError(files) == files

\* ExtractResult without the gltfFiles.length === 0 check
ExtractResult_NeverNull(files) == "files"

\* What extractZipFile returns once Promise.all has resolved: null when
\* extractedFiles.filter(f => f.isGltf) is empty, else the array.
ExtractResult(files) ==
    IF \A k \in 1..Len(files) : ~files[k].isGltf THEN "null" ELSE "files"

\* AllPromisesSettled resolving with the first callback that settles
\* (Promise.race for Promise.all)
AllPromisesSettled_AnySettled(s) == \E i \in DOMAIN s : s[i] # "pending"

\* await Promise.all(filePromises): every callback of the map has returned
AllPromisesSettled(s) == \A i \in DOMAIN s : s[i] # "pending"

ExtractInit ==
    /\ origin \in Origins
    /\ extractedFiles = <<>>
    /\ fileMap = EmptyMap
    /\ binFiles = <<>>
    /\ gltfUri = <<>>
    /\ request = NoRequest
    /\ response = None
    /\ again = None
    /\ ViewerInit
    /\ zipEntries \in ZipListings
    /\ settled = [i \in DOMAIN zipEntries |-> "unstarted"]
    /\ result = "loading"
    /\ OverrideIdle

\* zipInstance.loadAsync(file) rejects: the outer catch shows a toast and
\* returns null.
LoadAsyncFails ==
    /\ result = "loading"
    /\ result' = "null"
    /\ toast' = ExtractToast(0, "Error al procesar el archivo ZIP")
    /\ UNCHANGED <<zipEntries, settled>>
    /\ UNCHANGED <<resolverVars, overrideVars>>
    /\ UNCHANGED <<zipFiles, modelUrl, modelError, canvasKey, pendingUploads, timers,
                   uploaded, globalLoad, model, listeners, revoked, viewerMounted, created>>

\* loadAsync resolves and the map callback runs for every entry up to its
\* first await: a folder's callback returns, a member's decode is started.
LoadAsyncDone ==
    /\ result = "loading"
    /\ result' = "decoding"
    /\ settled' = [i \in DOMAIN zipEntries |->
                      IF IsDir(zipEntries[i]) THEN "dir" ELSE "pending"]
    /\ UNCHANGED zipEntries
    /\ UNCHANGED <<resolverVars, viewerVars, overrideVars>>

\* zipEntry.async('arraybuffer') of entry i resolves: the callback creates
\* the object URL and pushes the record.
DecodeDone(i) ==
    /\ settled[i] = "pending"
    /\ settled' = [settled EXCEPT ![i] = "ok"]
    /\ extractedFiles' =
          Append(extractedFiles, ExtractedFile(zipEntries[i], Len(extractedFiles) + 1))
    /\ UNCHANGED <<zipEntries, result>>
    /\ UNCHANGED <<origin, fileMap, binFiles, gltfUri, request, response, again>>
    /\ UNCHANGED <<viewerVars, overrideVars>>

\* zipEntry.async('arraybuffer') of entry i rejects: the inner catch.
DecodeFails(i) ==
    /\ settled[i] = "pending"
    /\ settled' = [settled EXCEPT ![i] = "failed"]
    /\ extractedFiles' = AfterMemberError(extractedFiles)
    /\ UNCHANGED <<zipEntries, result>>
    /\ UNCHANGED <<origin, fileMap, binFiles, gltfUri, request, response, again>>
    /\ UNCHANGED <<viewerVars, overrideVars>>

\* Promise.all(filePromises) resolves: the scene-document check and the return.
AllSettled ==
    /\ result = "decoding"
    /\ AllPromisesSettled(settled)
    /\ result' = ExtractResult(extractedFiles)
    /\ toast' = IF ExtractResult(extractedFiles) = "null"
                THEN ExtractToast(0, "No se encontraron archivos GLTF o GLB en el ZIP")
                ELSE toast
    /\ UNCHANGED <<zipEntries, settled>>
    /\ UNCHANGED <<resolverVars, overrideVars>>
    /\ UNCHANGED <<zipFiles, modelUrl, modelError, canvasKey, pendingUploads, timers,
                   uploaded, globalLoad, model, listeners, revoked, viewerMounted, created>>

ExtractNext ==
    \/ LoadAsyncFails
    \/ LoadAsyncDone
    \/ \E i \in DOMAIN zipEntries : DecodeDone(i)
    \/ \E i \in DOMAIN zipEntries : DecodeFails(i)
    \/ AllSettled

ExtractSpec == ExtractInit /\ [][ExtractNext]_vars

-----------------------------------------------------------------------------
(* OverrideSpec: the overrides of THREE.FileLoader.prototype.load, called *)
(* as the library calls load, with or without onLoad                      *)

\* Deepest call stack the engine allows, in frames of the override.
MaxStack == 3

\* What a call returned: `returns` is "null", "original" (the value the
\* loader saved before the installation returned) or "RangeError" (the
\* stack overflowed); the other fields count the calls of
\* customResourceLoader, of the saved loader, and of the override by itself.
Outcome(returns, custom, original, self) ==
    [returns |-> returns, custom |-> custom, original |-> original, self |-> self]

\* The override Model installs (latest viewer): originalFileLoader.current
\* was set before the installation.
ModelOverride(url, onLoad) ==
    IF url = <<>> THEN Outcome("null", 0, 0, 0)
    ELSE IF StartsWith(url, Str_blob) THEN Outcome("original", 0, 1, 0)
    ELSE IF onLoad THEN Outcome("null", 1, 0, 0)
    ELSE Outcome("original", 0, 1, 0)

\* The override setupZipFileLoader installs: originalLoad is its closure's.
SetupZipFileLoaderOverride(url, onLoad) ==
    IF url = <<>> THEN Outcome("null", 0, 0, 0)
    ELSE IF StartsWith(url, Str_blob) THEN Outcome("original", 0, 1, 0)
    ELSE IF onLoad THEN Outcome("null", 1, 0, 0)
    ELSE Outcome("original", 0, 1, 0)

\* The override the earlier Model installs. Its else branch calls
\* THREE.FileLoader.prototype.load.call(this, url): the property is read at
\* the time of the call, when it holds this very override, and onLoad is
\* not passed on. `frames` is the number of frames of it on the stack.
RECURSIVE GltfViewerOverride(_, _, _)
GltfViewerOverride(url, onLoad, frames) ==
    IF onLoad THEN Outcome("null", 1, 0, frames)
    ELSE IF frames = MaxStack THEN Outcome("RangeError", 0, 0, frames)
    ELSE GltfViewerOverride(url, FALSE, frames + 1)

\* The sources that install an override.
Overrides == {"part_001", "GltfViewer.tsx", "setupZipFileLoader"}

\* THREE.FileLoader.prototype.load(url, onLoad) while v's override is installed.
OverrideLoad(v, url, onLoad) ==
    IF v = "part_001" THEN ModelOverride(url, onLoad)
    ELSE IF v = "setupZipFileLoader" THEN SetupZipFileLoaderOverride(url, onLoad)
    ELSE GltfViewerOverride(url, onLoad, 0)

\* The urls the library asks load for: the document's uris, other
\* references, and an object URL.
LoadUrls == UriPool \cup ExtraRefs \cup {ObjectURL(1)}

OverrideInit ==
    /\ origin \in Origins
    /\ extractedFiles = <<>>
    /\ fileMap = EmptyMap
    /\ binFiles = <<>>
    /\ gltfUri = <<>>
    /\ request = NoRequest
    /\ response = None
    /\ again = None
    /\ ViewerInit
    /\ ExtractIdle
    /\ OverrideIdle

\* The effect (or setupZipFileLoader) of source v assigns its override.
InstallOverride(v) ==
    /\ installed = "none"
    /\ installed' = v
    /\ UNCHANGED <<loadCall, loadOutcome>>
    /\ UNCHANGED <<resolverVars, viewerVars, extractVars>>

\* The library calls load(url, onLoad) or load(url) on a FileLoader.
CallOverride(url, onLoad) ==
    /\ installed # "none"
    /\ loadCall' = [made |-> TRUE, url |-> url, onLoad |-> onLoad]
    /\ loadOutcome' = OverrideLoad(installed, url, onLoad)
    /\ UNCHANGED installed
    /\ UNCHANGED <<resolverVars, viewerVars, extractVars>>

OverrideNext ==
    \/ \E v \in Overrides : InstallOverride(v)
    \/ \E url \in LoadUrls, onLoad \in BOOLEAN : CallOverride(url, onLoad)

OverrideSpec == OverrideInit /\ [][OverrideNext]_vars

-----------------------------------------------------------------------------
(* Properties *)

\* The member whose content the answer is: the file served from the
\* archive, or the member a fetched handle belongs to; 0 for none.
Obtained ==
    IF response.t \in {"data", "text", "json"} THEN response.file
    ELSE IF response.t \in {"fetch", "original"}
         THEN Find(extractedFiles, LAMBDA f : f.url = response.url)
         ELSE 0

\* The references that spell the path of member i: as stored, in upper
\* case, and each with a leading "./" or "/".
PathSpellings(i) ==
    { extractedFiles[i].path,
      ToUpperCase(extractedFiles[i].path),
      Str_dot_slash \o extractedFiles[i].path,
      Str_slash \o extractedFiles[i].path }

\* A character the normalization rewrites: '?', '%' or a backslash.
HasUrlSyntax(path) == \E k \in 1..Len(path) : path[k] \in {"?", "%", "\\"}

\* C1: whenever every Model instance has been torn down, or no archive is
\* active, THREE.FileLoader.prototype.load is the library's own function.
C1_OverrideRestored ==
    (~model.mounted \/ zipFiles = 0) => globalLoad = <<>>

\* C2: whenever the installed override hands the renderer the content of a
\* member with extension .gltf (asked for by path or by its handle), what
\* it hands over is the output of the rewriting.
C2_SceneDocumentIsRewritten ==
    ( /\ request # NoRequest
      /\ ~request.direct
      /\ Obtained # 0
      /\ Extension(extractedFiles[Obtained].path) = Str_gltf )
    => response.t = "json"

\* C3: rewriting the rewritten document leaves every images[].uri and
\* buffers[].uri as the first rewriting made it.
C3_RewriteIdempotent ==
    again # None =>
        /\ \A k \in 1..Len(response.gltf.images) :
              again.gltf.images[k].uri = response.gltf.images[k].uri
        /\ \A k \in 1..Len(response.gltf.buffers) :
              again.gltf.buffers[k].uri = response.gltf.buffers[k].uri

C5_SceneBinResolves ==
    ( /\ request # NoRequest
      /\ request.url = Str_scenebin
      /\ Len(binFiles) = 1 )
    => response = Data(binFiles[1])

\* "scene.bin" was asked of an archive whose only buffer is o/b.bin, and
\* that member was returned.
C5_Witness ==
    /\ request # NoRequest
    /\ request.url = Str_scenebin
    /\ Len(binFiles) = 1
    /\ extractedFiles[binFiles[1]].name # Str_scenebin
    /\ Includes(extractedFiles[binFiles[1]].path, Str_slash)
    /\ response = Data(binFiles[1])

\* C6: when the archive holds a member whose path is the scene document's
\* directory followed by the uri, the rewriting points the uri at that member.
C6_BaseDirReferenceResolves ==
    response.t = "json" =>
        \A j \in 1..Len(extractedFiles) :
            ( /\ gltfUri # <<>>
              /\ extractedFiles[j].path
                   = GltfDir(extractedFiles[response.file].path) \o gltfUri )
            => /\ response.gltf.images[1].uri = extractedFiles[j].url
               /\ response.gltf.buffers[1].uri = extractedFiles[j].url

\* The three keys the claim names for a file.
NamedKeys(file) ==
    { ToLowerCase(file.name), ToLowerCase(file.path),
      ToLowerCase(StrippedPath(file.path)) }

\* C7: each of the three keys registered for a blob leads back to that blob.
C7_EveryKeyResolvesToItsBlob ==
    \A i \in 1..Len(extractedFiles) :
        \A k \in NamedKeys(extractedFiles[i]) : MapGet(fileMap, k) = i

\* C8: every blob is the value of at least one key.
C8_EveryBlobHasAKey ==
    \A i \in 1..Len(extractedFiles) :
        \E k \in DOMAIN fileMap : fileMap[k] = i

\* C9: a key maps to the first blob, in insertion order, that produced it.
C9_FirstInsertedWins ==
    \A k \in DOMAIN fileMap :
        \A i \in 1..Len(extractedFiles) :
            k \in NamedKeys(extractedFiles[i]) => fileMap[k] <= i

\* The directories a scene document of the archive can lie in.
BaseDirs ==
    {<<>>}
    \cup { GltfDir(extractedFiles[i].path) : i \in 1..Len(extractedFiles) }
    \cup { ToLowerCase(GltfDir(extractedFiles[i].path)) : i \in 1..Len(extractedFiles) }

\* The blobs step n of the chain finds for reference ref and baseDir d.
ChainStep(n, ref, d) ==
    CASE n = 1 -> { MapGet(fileMap, ref) } \ {0}
      [] n = 2 -> { MapGet(fileMap, Filename(ref)) } \ {0}
      [] n = 3 -> { MapGet(fileMap, d \o ref) } \ {0}
      [] n = 4 -> { i \in 1..Len(extractedFiles) :
                      EndsWith(ToLowerCase(extractedFiles[i].path), ref) }
      [] n = 5 -> { i \in 1..Len(extractedFiles) :
                      ToLowerCase(extractedFiles[i].name) = Filename(ref) }

\* The first step of the chain that finds a blob, 0 when none does.
FirstMatchingStep(ref, d) ==
    IF ChainStep(1, ref, d) # {} THEN 1
    ELSE IF ChainStep(2, ref, d) # {} THEN 2
    ELSE IF ChainStep(3, ref, d) # {} THEN 3
    ELSE IF ChainStep(4, ref, d) # {} THEN 4
    ELSE IF ChainStep(5, ref, d) # {} THEN 5
    ELSE 0

\* The request reached the lookup chain: it is no handle, and it decodes.
ReachedLookup ==
    /\ request # NoRequest
    /\ request.url # <<>> \/ request.direct
    /\ ~StartsWith(request.url, Str_blob)
    /\ ~ThrowsURIError(Undecoded(request.url))

AnsweredByFallback ==
    /\ ReachedLookup
    /\ Lookup(extractedFiles, NormalizedUrl(request.url),
              Filename(NormalizedUrl(request.url))) = 0
    /\ response.t \in {"data", "text", "json"}

\* C11: a member chosen by the binary-buffer fallback is the first entry of
\* the pool, and the reference it answers ends in ".bin".
C11_FallbackOnlyForBinReferences ==
    AnsweredByFallback =>
        /\ EndsWith(NormalizedUrl(request.url), Str_dotbin)
        /\ response.file = FirstBin

\* The position of a member in the archive's enumeration.
EntryIndex(path) == CHOOSE i \in DOMAIN zipEntries : zipEntries[i] = path

\* C12: the array extractZipFile returns, and the binary-buffer pool
\* filtered from it, list the members in archive enumeration order.
C12_EnumerationOrderKept ==
    result = "files" =>
        /\ \A a, b \in DOMAIN extractedFiles :
              a < b => EntryIndex(extractedFiles[a].path) < EntryIndex(extractedFiles[b].path)
        /\ \A a, b \in DOMAIN BinFiles(extractedFiles) :
              a < b => EntryIndex(extractedFiles[BinFiles(extractedFiles)[a]].path)
                         < EntryIndex(extractedFiles[BinFiles(extractedFiles)[b]].path)

\* No step of the chain finds the document's uri from the document's
\* directory, and the binary-buffer fallback does not apply to it.
UriUnresolved ==
    /\ gltfUri # <<>>
    /\ ~ThrowsURIError(Undecoded(gltfUri))
    /\ FirstMatchingStep(NormalizedUrl(gltfUri),
                         ToLowerCase(GltfDir(extractedFiles[response.file].path))) = 0
    /\ \/ ~EndsWith(NormalizedUrl(gltfUri), Str_dotbin)
       \/ binFiles = <<>>

\* C13: a uri that is not resolved is carried by the rewritten document
\* exactly as it was, in images[] and in buffers[].
C13_UnresolvedUriUnchanged ==
    (response.t = "json" /\ UriUnresolved) =>
        /\ response.gltf.images[1].uri = gltfUri
        /\ response.gltf.buffers[1].uri = gltfUri

\* filename's extension is gltf or glb: the member is a scene document.
IsSceneDocument(filename) == Extension(filename) \in {Str_gltf, Str_glb}

\* C14: when extractZipFile has returned and no decoded member is a scene
\* document, it has returned null and shown an error toast.
C14_NoSceneDocumentFailsExtraction ==
    ( /\ result \in {"files", "null"}
      /\ \A i \in DOMAIN zipEntries :
            settled[i] = "ok" => ~IsSceneDocument(zipEntries[i]) )
    => /\ result = "null"
       /\ toast.title = "Error"

\* Members were decoded, none of them a scene document, and extractZipFile
\* returned null with the toast of the scene-document check.
C14_Witness ==
    /\ result = "null"
    /\ \E i \in DOMAIN zipEntries : settled[i] = "ok"
    /\ \A i \in DOMAIN zipEntries :
          settled[i] = "ok" => ~IsSceneDocument(zipEntries[i])
    /\ toast = ExtractToast(0, "No se encontraron archivos GLTF o GLB en el ZIP")

\* The size the toast shows is the file's size: the two decimals of the
\* megabyte figure leave nothing out.
ReportsExactSize(t) ==
    /\ ((t.file % (1024 * 1024)) * 100) % (1024 * 1024) = 0
    /\ t.mb = (t.file \div (1024 * 1024)) * 100
              + ((t.file % (1024 * 1024)) * 100) \div (1024 * 1024)

\* C15: an upload rejected by the size check is never extracted (no
\* extraction is pending or was completed for it, no object URL was
\* created), and the toast reports its size exactly.
C15_OversizeRejectedWithExactSize ==
    toast.title = "Archivo demasiado grande" =>
        /\ toast.file > MAX_FILE_SIZE
        /\ toast.id \notin (pendingUploads \cup {timers[k] : k \in DOMAIN timers} \cup created
                          \cup {zipFiles, modelUrl})
        /\ ReportsExactSize(toast)

\* C16: when the reference names no member and the fetch of it fails (a
\* network error or a non-success status), the request ends in an error
\* that carries the reference.
C16_NetworkFailureIsAnError ==
    ( /\ ReachedLookup
      /\ Resolve(extractedFiles, NormalizedUrl(request.url),
                 Filename(NormalizedUrl(request.url))) = 0
      /\ request.net \in {"status", "reject"} )
    => /\ response.t = "Error"
       /\ response.url = request.url

\* C17: a request for the handle of a member is answered by the fetch of
\* that handle, or by the failure of that fetch.
C17_HandlePassesThrough ==
    ( /\ request # NoRequest
      /\ \E i \in 1..Len(extractedFiles) : extractedFiles[i].url = request.url )
    => \/ response.t \in {"fetch", "original"} /\ response.url = request.url
       \/ response.t \in {"TypeError", "ErrorEvent"}

\* The session of archive a has ended: its extraction has settled and it
\* is not the archive shown, or the viewer is gone.
SessionEnded(a) ==
    /\ a \notin pendingUploads
    /\ zipFiles # a \/ ~viewerMounted

\* C18: the object URLs created for an archive are eventually revoked once
\* the archive's session has ended.
C18_HandlesEventuallyReleased ==
    \A a \in 1..MaxUploads :
        (a \in created /\ SessionEnded(a)) ~> (a \in revoked)

\* The document with the uri of every images[] and buffers[] entry blanked.
WithoutUris(gltf) ==
    [ gltf EXCEPT
        !.images  = [k \in 1..Len(gltf.images) |-> [gltf.images[k] EXCEPT !.uri = <<>>]],
        !.buffers = [k \in 1..Len(gltf.buffers) |-> [gltf.buffers[k] EXCEPT !.uri = <<>>]] ]

\* C19: the rewritten document differs from the original in nothing but
\* the uri of entries of images[] and buffers[].
C19_OnlyUrisRewritten ==
    response.t = "json" =>
        /\ DOMAIN response.gltf = DOMAIN Gltf(gltfUri)
        /\ Len(response.gltf.images) = Len(Gltf(gltfUri).images)
        /\ Len(response.gltf.buffers) = Len(Gltf(gltfUri).buffers)
        /\ WithoutUris(response.gltf) = WithoutUris(Gltf(gltfUri))

\* A document was served whose images[0] and buffers[0] uris were both
\* rewritten to handles.
C19_Witness ==
    /\ response.t = "json"
    /\ StartsWith(response.gltf.images[1].uri, Str_blob)
    /\ StartsWith(response.gltf.buffers[1].uri, Str_blob)
    /\ ~StartsWith(gltfUri, Str_blob)

\* C20: the returned array holds exactly the members whose decode
\* succeeded, and extraction succeeds whenever a scene document is among them.
C20_FailedMemberAloneIsDropped ==
    /\ { extractedFiles[k].path : k \in 1..Len(extractedFiles) }
         = { zipEntries[i] : i \in { j \in DOMAIN zipEntries : settled[j] = "ok" } }
    /\ ( /\ result \in {"files", "null"}
         /\ \E i \in DOMAIN zipEntries :
               settled[i] = "ok" /\ IsSceneDocument(zipEntries[i]) )
       => result = "files"

\* One member failed to decode, and extractZipFile returned the others.
C20_Witness ==
    /\ result = "files"
    /\ \E i \in DOMAIN zipEntries : settled[i] = "failed"
    /\ Len(extractedFiles) >= 2
    /\ \A i \in DOMAIN zipEntries :
          settled[i] = "failed" =>
              \A k \in 1..Len(extractedFiles) : extractedFiles[k].path # zipEntries[i]

\* extractZipFile has returned, with the array or with null.
Returned == result \in {"files", "null"}

\* C21: once extractZipFile has returned, no member decode is pending, and
\* no step adds to or removes from the array it returned.
C21_ReturnsAfterEveryDecode ==
    /\ [](Returned => \A i \in DOMAIN zipEntries : settled[i] # "pending")
    /\ [][Returned => extractedFiles' = extractedFiles]_vars

\* extractZipFile returned for an archive with a folder entry and two
\* members, one decoded and one failed.
C21_Witness ==
    /\ Returned
    /\ \E i \in DOMAIN zipEntries : settled[i] = "dir"
    /\ \E i \in DOMAIN zipEntries : settled[i] = "ok"
    /\ \E i \in DOMAIN zipEntries : settled[i] = "failed"

\* The normalization as specified: the query removed, backslashes
\* replaced, percent-escapes decoded, and the result lower-cased.
LowerCasedAfterDecoding(url) ==
    ToLowerCase(DecodeURIComponent(ReplaceBackslashes(SplitFirst(url, "?"))))

\* s holds a '%' followed by two hexadecimal digits.
HasPercentEscape(s) ==
    \E i \in 1..(Len(s) - 2) :
        s[i] = "%" /\ s[i + 1] \in HexDigits /\ s[i + 2] \in HexDigits

\* C22: the normalized form the loader looks up is the reference without
\* its query, with '/' for backslashes, percent-decoded and then
\* lower-cased; it holds no upper-case letter, backslash or percent-escape.
C22_NormalizedFormIsCanonical ==
    ReachedLookup =>
        /\ NormalizedUrl(request.url) = LowerCasedAfterDecoding(request.url)
        /\ NormalizedUrl(request.url) = ToLowerCase(NormalizedUrl(request.url))
        /\ \A i \in 1..Len(NormalizedUrl(request.url)) :
              NormalizedUrl(request.url)[i] # "\\"
        /\ ~HasPercentEscape(NormalizedUrl(request.url))

\* C23: for the uri of the scene document's images[] and buffers[] entry,
\* the member the rewriter points the uri at is the member the loader
\* answers that same reference with (0 on both sides when neither resolves).
C23_RewriterAgreesWithAdapter ==
    ( /\ response.t = "json"
      /\ gltfUri # <<>>
      /\ ~ThrowsURIError(Undecoded(gltfUri)) )
    => LET adapter == Resolve(extractedFiles, NormalizedUrl(gltfUri),
                              Filename(NormalizedUrl(gltfUri)))
           gltfDir == GltfDir(extractedFiles[response.file].path)
       IN  /\ ImageFile(extractedFiles, gltfDir, gltfUri) = adapter
           /\ BufferFile(extractedFiles, gltfDir, gltfUri) = adapter

\* C25: a reference equal to the lower-cased full path of a member (the
\* only member with that lower-cased path) is answered with that member.
C25_FullPathReturnsThatBlob ==
    request # NoRequest =>
        \A i \in 1..Len(extractedFiles) :
            ( /\ request.url = ToLowerCase(extractedFiles[i].path)
              /\ ~HasUrlSyntax(extractedFiles[i].path)
              /\ \A j \in 1..Len(extractedFiles) :
                    ToLowerCase(extractedFiles[j].path) = request.url => j = i )
            => /\ response.t \in {"data", "text", "json"}
               /\ response.file = i

\* C26: a member found by a step of the lookup has, lower-cased, the name
\* that is the final path segment of the normalized reference.
C26_LookupMatchesWholeName ==
    ( /\ ReachedLookup
      /\ Lookup(extractedFiles, NormalizedUrl(request.url),
                Filename(NormalizedUrl(request.url))) # 0 )
    => ToLowerCase(extractedFiles[Lookup(extractedFiles, NormalizedUrl(request.url),
                                         Filename(NormalizedUrl(request.url)))].name)
         = SplitPop(NormalizedUrl(request.url), "/")

\* The array extractZipFile would have returned had the same decodes
\* completed in the order p (a permutation of the positions of the array).
InCompletionOrder(p) ==
    [k \in 1..Len(extractedFiles) |-> ExtractedFile(extractedFiles[p[k]].path, k)]

\* The path of the member a key of the map built over files leads to.
KeyedPath(files, key) == files[FileMap(files)[key]].path

\* The paths of the binary-buffer pool of files, in the pool's order.
PoolPaths(files) ==
    [k \in 1..Len(BinFiles(files)) |-> files[BinFiles(files)[k]].path]

\* The scene document handleZipFileUpload picks: extractedFiles.find(f => f.isGltf)
PickedSceneDocument(files) == files[Find(files, LAMBDA f : f.isGltf)].path

\* C24: whatever order the member decodes complete in, the loader built
\* over the returned array maps every key to the same member and has the
\* same binary-buffer pool, and the viewer picks the same scene document.
C24_ResolutionIndependentOfDecodeOrder ==
    result = "files" =>
        \A p \in Permutations(1..Len(extractedFiles)) :
            /\ \A key \in DOMAIN FileMap(extractedFiles) :
                  KeyedPath(InCompletionOrder(p), key) = KeyedPath(extractedFiles, key)
            /\ PoolPaths(InCompletionOrder(p)) = PoolPaths(extractedFiles)
            /\ PickedSceneDocument(InCompletionOrder(p)) = PickedSceneDocument(extractedFiles)

\* C27: while the viewer is mounted, a model URL that is the handle of an
\* archive belongs to the current zipFiles, and that archive's handles have
\* not been revoked.
C27_ModelUrlBelongsToLiveArchive ==
    (viewerMounted /\ modelUrl # 0) =>
        /\ zipFiles = modelUrl
        /\ modelUrl \notin revoked

\* The archives whose extraction succeeded while the viewer was mounted:
\* each became zipFiles, and is still, or was revoked when replaced.
Extracted == (revoked \cup {zipFiles}) \ {0}

\* Nothing but ZIP uploads changed the model: every remount so far, and
\* every pending timer, is that of a successful extraction.
OnlyZipUploads == canvasKey + Len(timers) = Cardinality(Extracted)

\* C28: when only ZIP uploads are made, zipFiles and a model URL that is an
\* archive handle belong to the same archive, and once every extraction
\* and timer has settled the archive shown is the one uploaded last.
C28_LastUploadWins ==
    (viewerMounted /\ OnlyZipUploads) =>
        /\ (zipFiles # 0 /\ modelUrl # 0) => zipFiles = modelUrl
        /\ (pendingUploads = {} /\ timers = <<>> /\ zipFiles # 0) =>
              /\ zipFiles = CHOOSE a \in Extracted : \A b \in Extracted : b <= a
              /\ modelUrl = zipFiles

\* C29: while the viewer is mounted the keydown/keyup listeners are registered.
C29_ListenersStayRegistered ==
    viewerMounted => listeners

\* C30: a call of load without onLoad through an installed override returns
\* what the loader in place before the installation returns, having called
\* that loader exactly once and the override itself never.
C30_DelegatesOnceNeverToItself ==
    (loadCall.made /\ ~loadCall.onLoad) =>
        /\ loadOutcome.returns = "original"
        /\ loadOutcome.original = 1
        /\ loadOutcome.self = 0

=============================================================================
